---- MODULE Spec2Model ----
(***************************************************************************)
(* Model of tornado_json/api_doc_gen.py: the api_doc_gen pipeline (route   *)
(* normalisation, sorting, per-route documentation, the single write) and  *)
(* the text utilities cleandoc / add_indent.                               *)
(*                                                                         *)
(* Python values are modelled as follows.  None is the string "None".  A   *)
(* str that the code inspects character by character (a route pattern, a   *)
(* line of a doc block) is a sequence of one-character strings; a block of *)
(* text is the sequence of its lines (doc.split("\n")).  A call that may   *)
(* raise returns a record [exc, msg, value] with exc = "none" on success.  *)
(***************************************************************************)
EXTENDS Integers, Sequences, FiniteSets, TLC

VARIABLES
    routes,         \* api_doc_gen: the argument, a sequence of route descriptors
    pc,             \* api_doc_gen: position ("map", "loop", "done", "error"; "idle" = not running)
    normalized,     \* api_doc_gen: tuples produced so far by map(_get_tuple_from_route, routes)
    todo,           \* api_doc_gen: the part of sorted(routes) the for loop has not visited
    documentation,  \* api_doc_gen: the list documentation
    error,          \* the exception that ended the run ([exc |-> "none"] while there is none)
    file,           \* API_Documentation.md: <<>> until written, then <<content>>
    writes,         \* number of f.write calls made
    scanned,        \* names of the handler classes _get_rh_methods was called on
    validated,      \* <<handler, method, slot>> triples validate() was called on
    classes,        \* the handler classes of the application, by __name__
    doc,            \* text utilities: the block handed to cleandoc
    cleaned,        \* text utilities: the result of cleandoc(doc)
    indent,         \* text utilities: the indent handed to add_indent
    restored,       \* text utilities: the result of add_indent(cleandoc(doc), indent)
    tpc             \* text utilities: position ("start", "cleaned", "failed", "indented"; "idle")

vars == <<routes, pc, normalized, todo, documentation, error, file, writes,
          scanned, validated, classes, doc, cleaned, indent, restored, tpc>>

pipelineVars == <<routes, pc, normalized, todo, documentation, error, file,
                  writes, scanned, validated, classes>>

textVars == <<doc, cleaned, indent, restored, tpc>>

None == "None"

NoError == [exc |-> "none", msg |-> <<>>]

(***************************************************************************)
(* Bounds of the model.                                                    *)
(***************************************************************************)
MaxLines == 3

MaxLineLen == 2

MaxRoutes == 3

MaxMembers == 2

(***************************************************************************)
(* Text utilities: cleandoc and add_indent.                                *)
(***************************************************************************)
Chars == {" ", "x"}

LinesUpTo(n) == UNION {[1..k -> Chars] : k \in 0..n}

BlocksUpTo(n, m) == UNION {[1..k -> LinesUpTo(m)] : k \in 1..n}

RECURSIVE lstrip(_)
lstrip(s) == IF s # <<>> /\ Head(s) = " " THEN lstrip(Tail(s)) ELSE s

indent_length(s) == Len(s) - Len(lstrip(s))

not_empty(s) == s # <<>>

Spaces(n) == [j \in 1..n |-> " "]

\* s[n:]
SliceFrom(s, n) == IF n >= Len(s) THEN <<>> ELSE SubSeq(s, n + 1, Len(s))

SetMin(S) == CHOOSE m \in S : \A k \in S : m <= k

\* min(map(indent_length, filter(not_empty, lines))); min() of an empty
\* sequence raises ValueError.
cleandoc(d) ==
    LET lines == d
        kept == SelectSeq(lines, not_empty)
    IN  IF kept = <<>>
        THEN [exc |-> "ValueError", value |-> <<>>]
        ELSE LET ind == SetMin({indent_length(kept[i]) : i \in 1..Len(kept)})
             IN  [exc |-> "none",
                  value |-> [i \in 1..Len(lines) |-> SliceFrom(lines[i], ind)]]

\* Mutant: the indent is added to every line, the first included.
add_indent_every_line(string, ind) ==
    [i \in 1..Len(string) |-> Spaces(ind) \o string[i]]

add_indent(string, ind) ==
    LET lines == string
        first == lines[1]
        rest == [i \in 1..(Len(lines) - 1) |-> Spaces(ind) \o lines[i + 1]]
    IN  <<first>> \o rest

PipelineIdle ==
    /\ routes = <<>>
    /\ pc = "idle"
    /\ normalized = <<>>
    /\ todo = <<>>
    /\ documentation = <<>>
    /\ error = NoError
    /\ file = <<>>
    /\ writes = 0
    /\ scanned = {}
    /\ validated = {}
    /\ classes = <<>>

TextIdle ==
    /\ doc = <<>>
    /\ cleaned = [exc |-> "none", value |-> <<>>]
    /\ indent = 0
    /\ restored = <<>>
    /\ tpc = "idle"

InitText ==
    /\ PipelineIdle
    /\ doc \in BlocksUpTo(MaxLines, MaxLineLen)
    /\ cleaned = [exc |-> "none", value |-> <<>>]
    /\ indent = 0
    /\ restored = <<>>
    /\ tpc = "start"

Cleandoc ==
    /\ tpc = "start"
    /\ cleaned' = cleandoc(doc)
    /\ tpc' = IF cleaned'.exc = "none" THEN "cleaned" ELSE "failed"
    /\ UNCHANGED <<doc, indent, restored>>
    /\ UNCHANGED pipelineVars

AddIndent ==
    /\ tpc = "cleaned"
    /\ \E ind \in 0..MaxLineLen :
         /\ indent' = ind
         /\ restored' = add_indent(cleaned.value, ind)
    /\ tpc' = "indented"
    /\ UNCHANGED <<doc, cleaned>>
    /\ UNCHANGED pipelineVars

NextText == Cleandoc \/ AddIndent

SpecText == InitText /\ [][NextText]_vars

(***************************************************************************)
(* Values of the pipeline.                                                 *)
(*                                                                         *)
(* A member of a handler class is a record                                 *)
(*   [name, is_method, has_input_schema, input_schema, output_schema,      *)
(*    input_example, output_example, doc]                                  *)
(* where is_method is tornado_json.utils.is_method(v), has_input_schema is *)
(* hasattr(v, "input_schema") and doc is inspect.getdoc(v) (None when the  *)
(* method has no docstring).  A handler class is a record                  *)
(*   [api, own, inherited]                                                 *)
(* where api is issubclass(rh, APIHandler), own is the class's own         *)
(* namespace in declaration order (names distinct) and inherited holds the *)
(* members it gets from its supertypes.  Classes are referred to by name   *)
(* (rh.__name__) and looked up in the variable classes.                    *)
(*                                                                         *)
(* A route descriptor is a record [type, items, regex_pattern,             *)
(* handler_class]: type is type(route).__name__, items the elements of a   *)
(* tuple or list, regex_pattern and handler_class the attributes of a      *)
(* tornado.web.URLSpec (route.regex.pattern, route.handler_class).         *)
(*                                                                         *)
(* A rendered Markdown fragment is kept structured (a sequence or record   *)
(* of its parts) instead of being flattened into one string.               *)
(***************************************************************************)
HTTP_METHODS == {"get", "put", "post", "patch", "delete", "head", "options"}

\* jsonschema.validate(example, schema), a black box: it accepts or raises
\* ValidationError with a diagnostic.
validate(example, schema) ==
    IF schema = "integer" /\ example # "7"
    THEN [exc |-> "ValidationError",
          msg |-> <<"'x' is not of type 'integer'">>]
    ELSE NoError

\* json.dumps(v, indent=4)
json_dumps(v) ==
    CASE v = None -> "null"
      [] v = "7" -> "7"
      [] v = "x" -> "\"x\""
      [] v = "integer" -> "{\n    \"type\": \"integer\"\n}"

upper(name) ==
    CASE name = "get" -> "GET"
      [] name = "put" -> "PUT"
      [] name = "post" -> "POST"
      [] name = "patch" -> "PATCH"
      [] name = "delete" -> "DELETE"
      [] name = "head" -> "HEAD"
      [] name = "options" -> "OPTIONS"
      [] OTHER -> "?"

capitalize(type) == IF type = "input" THEN "Input" ELSE "Output"

\* Mutant: an example the validator rejects is skipped instead of raising.
ValidateExampleResult_skipping(rh, method, example_type, example, v) ==
    IF example = None
    THEN [exc |-> "none", msg |-> <<>>, value |-> None, validated |-> {}]
    ELSE [exc |-> "none", msg |-> <<>>,
          value |-> IF v.exc # "none" THEN None ELSE json_dumps(example),
          validated |-> {<<rh, method.name, example_type>>}]

\* The body of _validate_example once example and the validator's verdict
\* v are known.
ValidateExampleResult(rh, method, example_type, example, v) ==
    IF example = None
    THEN [exc |-> "none", msg |-> <<>>, value |-> None, validated |-> {}]
    ELSE IF v.exc # "none"
    THEN [exc |-> "ValidationError",
          msg |-> <<example_type, rh, method.name>> \o v.msg,
          value |-> None,
          validated |-> {<<rh, method.name, example_type>>}]
    ELSE [exc |-> "none", msg |-> <<>>, value |-> json_dumps(example),
          validated |-> {<<rh, method.name, example_type>>}]

\* getattr(method, example_type + "_example")
ExampleAttr(method, example_type) ==
    IF example_type = "input" THEN method.input_example
                              ELSE method.output_example

\* getattr(method, example_type + "_schema")
SchemaAttr(method, example_type) ==
    IF example_type = "input" THEN method.input_schema
                              ELSE method.output_schema

_validate_example(rh, method, example_type) ==
    ValidateExampleResult(rh, method, example_type,
                          ExampleAttr(method, example_type),
                          validate(ExampleAttr(method, example_type),
                                   SchemaAttr(method, example_type)))

\* vars(rh).items() in the enumeration order given by order (a permutation of the
\* indices of the class's own namespace: a dict's iteration order is the
\* declaration order on Python >= 3.7 and arbitrary before).
vars_items(cls, order) == [i \in 1..Len(cls.own) |-> cls.own[order[i]]]

IsDocumented(v) ==
    /\ v.name \in HTTP_METHODS
    /\ v.is_method
    /\ v.has_input_schema

\* Mutant: the members are enumerated with the inherited ones (as dir() or
\* inspect.getmembers would).
_get_rh_methods_inherited(cls, order) ==
    SelectSeq(vars_items(cls, order) \o cls.inherited, IsDocumented)

_get_rh_methods(cls, order) == SelectSeq(vars_items(cls, order), IsDocumented)

\* Mutant: the tuple branch also takes lists.
_get_tuple_from_route_any_sequence(route, debug) ==
    IF route.type \in {"tuple", "list"}
    THEN IF Len(route.items) >= 2
         THEN [exc |-> "none", msg |-> <<>>,
               value |-> SubSeq(route.items, 1, 2)]
         ELSE [exc |-> IF debug THEN "AssertionError" ELSE "ValueError",
               msg |-> <<>>, value |-> <<>>]
    ELSE IF route.type = "URLSpec"
    THEN [exc |-> "none", msg |-> <<>>,
          value |-> <<route.regex_pattern, route.handler_class>>]
    ELSE [exc |-> "TypeError", msg |-> <<"Unknown route type", route.type>>,
          value |-> <<>>]

\* debug is Python's __debug__: with python -O the assert is compiled out and
\* unpacking route[:2] of a shorter tuple raises ValueError.
_get_tuple_from_route(route, debug) ==
    IF route.type = "tuple"
    THEN IF Len(route.items) >= 2
         THEN [exc |-> "none", msg |-> <<>>,
               value |-> SubSeq(route.items, 1, 2)]
         ELSE [exc |-> IF debug THEN "AssertionError" ELSE "ValueError",
               msg |-> <<>>, value |-> <<>>]
    ELSE IF route.type = "URLSpec"
    THEN [exc |-> "none", msg |-> <<>>,
          value |-> <<route.regex_pattern, route.handler_class>>]
    ELSE [exc |-> "TypeError", msg |-> <<"Unknown route type", route.type>>,
          value |-> <<>>]

_write_docs_to_file(documentation_) ==
    [preamble |-> <<"**This documentation is automatically generated.**",
                    "",
                    "**Output schemas only represent 'data' and not the full output; see output examples and the JSend specification.**">>,
     separator |-> "\n<br>\n<br>\n",
     sections |-> documentation_]

\* The backquote character (SANY's lexer does not take it inside a string).
Backquote == "BACKQUOTE"

literals == {"\\", Backquote, "*", "_", "{", "}", "[", "]", "(", ")", "<", ">",
             "#", "+", "-", ".", "!", ":", "|"}

RECURSIVE _escape_markdown_literals(_)
_escape_markdown_literals(string) ==
    IF string = <<>>
    THEN <<>>
    ELSE (IF Head(string) \in literals THEN <<"\\", Head(string)>>
                                       ELSE <<Head(string)>>)
         \o _escape_markdown_literals(Tail(string))

\* The body of _get_example_doc once example = _validate_example(...) is
\* known.
ExampleDoc(type, example) ==
    IF example.exc # "none"
    THEN [exc |-> example.exc, msg |-> example.msg, value |-> <<>>,
          validated |-> example.validated]
    ELSE IF example.value = None
    THEN [exc |-> "none", msg |-> <<>>, value |-> <<>>,
          validated |-> example.validated]
    ELSE [exc |-> "none", msg |-> <<>>,
          value |-> <<"**" \o capitalize(type) \o " Example**",
                      example.value>>,
          validated |-> example.validated]

_get_example_doc(rh, method, type) ==
    ExampleDoc(type, _validate_example(rh, method, type))

_get_input_example(rh, method) == _get_example_doc(rh, method, "input")

_get_output_example(rh, method) == _get_example_doc(rh, method, "output")

_get_schema_doc(schema, type) ==
    <<"**" \o capitalize(type) \o " Schema**", json_dumps(schema)>>

_get_input_schema_doc(method) == _get_schema_doc(method.input_schema, "input")

_get_output_schema_doc(method) ==
    _get_schema_doc(method.output_schema, "output")

\* add_indent(inspect.getdoc(method), 4): None has no split().
_get_notes(method) ==
    IF method.doc = None
    THEN [exc |-> "AttributeError", msg |-> <<>>, value |-> <<>>]
    ELSE [exc |-> "none", msg |-> <<>>, value |-> <<"**Notes**", method.doc>>]

NoMethodDoc ==
    [heading |-> "", name |-> "", input_schema |-> <<>>, input_example |-> <<>>,
     output_schema |-> <<>>, output_example |-> <<>>, notes |-> <<>>]

\* The body of _get_method_doc once the arguments of format() are known.
\* They are evaluated in the order written: input_schema, output_schema,
\* notes, input_example, output_example; the first exception ends the call.
MethodDoc(method_name, input_schema, output_schema, notes, input_example, output_example) ==
    IF notes.exc # "none"
    THEN [exc |-> notes.exc, msg |-> notes.msg, value |-> NoMethodDoc,
          validated |-> {}]
    ELSE IF input_example.exc # "none"
    THEN [exc |-> input_example.exc, msg |-> input_example.msg,
          value |-> NoMethodDoc, validated |-> input_example.validated]
    ELSE IF output_example.exc # "none"
    THEN [exc |-> output_example.exc, msg |-> output_example.msg,
          value |-> NoMethodDoc,
          validated |-> input_example.validated
                        \cup output_example.validated]
    ELSE [exc |-> "none", msg |-> <<>>,
          value |-> [heading |-> "## " \o upper(method_name),
                     name |-> method_name,
                     input_schema |-> input_schema,
                     input_example |-> input_example.value,
                     output_schema |-> output_schema,
                     output_example |-> output_example.value,
                     notes |-> notes.value],
          validated |-> input_example.validated
                        \cup output_example.validated]

_get_method_doc(rh, method_name, method) ==
    MethodDoc(method_name,
              _get_input_schema_doc(method),
              _get_output_schema_doc(method),
              _get_notes(method),
              _get_input_example(rh, method),
              _get_output_example(rh, method))

\* One step of the list comprehension of _get_rh_doc: d is the doc of the
\* first method, r the result for the methods after it.
JoinMethodDocs(d, r) ==
    IF d.exc # "none"
    THEN [exc |-> d.exc, msg |-> d.msg, value |-> <<>>,
          validated |-> d.validated]
    ELSE [exc |-> r.exc, msg |-> r.msg,
          value |-> IF r.exc = "none" THEN <<d.value>> \o r.value ELSE <<>>,
          validated |-> d.validated \cup r.validated]

\* The list comprehension over the methods, stopping at the first exception.
RECURSIVE MethodDocs(_, _)
MethodDocs(rh, methods) ==
    IF methods = <<>>
    THEN [exc |-> "none", msg |-> <<>>, value |-> <<>>, validated |-> {}]
    ELSE JoinMethodDocs(_get_method_doc(rh, Head(methods).name, Head(methods)),
                        MethodDocs(rh, Tail(methods)))

_get_rh_doc(rh, cls, order) == MethodDocs(rh, _get_rh_methods(cls, order))

\* The body of _get_route_doc once body = _get_rh_doc(rh) is known.
RouteDoc(url, rh, body) ==
    [exc |-> body.exc, msg |-> body.msg,
     value |-> [heading |-> <<"#", " ">> \o _escape_markdown_literals(url),
                url |-> url,
                rh |-> rh,
                content_type |-> "Content-Type: application/json",
                methods |-> body.value],
     validated |-> body.validated]

_get_route_doc(url, rh, cls, order) ==
    RouteDoc(url, rh, _get_rh_doc(rh, cls, order))

\* Code point of a character (ord).
Ord(c) ==
    CASE c = "$" -> 36
      [] c = "." -> 46
      [] c = "/" -> 47
      [] c = "a" -> 97
      [] c = "b" -> 98
      [] c = "c" -> 99

\* a < b on Python strings.
RECURSIVE StrLess(_, _)
StrLess(a, b) ==
    IF b = <<>> THEN FALSE
    ELSE IF a = <<>> THEN TRUE
    ELSE IF Head(a) = Head(b) THEN StrLess(Tail(a), Tail(b))
    ELSE Ord(Head(a)) < Ord(Head(b))

\* Stable insertion of x into s, sorted by key a[0].
RECURSIVE InsertByKey(_, _)
InsertByKey(x, s) ==
    IF s = <<>> THEN <<x>>
    ELSE IF StrLess(x[1], Head(s)[1]) THEN <<x>> \o s
    ELSE <<Head(s)>> \o InsertByKey(x, Tail(s))

\* Mutant: the routes are left in the order the caller gave them.
sorted_by_pattern_unsorted(s) == s

\* sorted(routes, key=lambda a: a[0]); sorted() is stable.
RECURSIVE sorted_by_pattern(_)
sorted_by_pattern(s) ==
    IF s = <<>> THEN <<>>
    ELSE InsertByKey(s[Len(s)], sorted_by_pattern(SubSeq(s, 1, Len(s) - 1)))

\* Mutant: every handler class is documented.
issubclass_APIHandler_always(cls) == TRUE

issubclass_APIHandler(cls) == cls.api

(***************************************************************************)
(* api_doc_gen as a process.  map() is lazy and sorted() consumes it whole *)
(* before the for loop starts: Normalize runs once per route, Sort once    *)
(* all routes are normalised, DocRoute once per sorted route, Write last.  *)
(* An exception raised in any step ends the run (pc = "error").            *)
(***************************************************************************)
\* The effect of one call of _get_tuple_from_route returning r.
Normalized(r) ==
    IF r.exc = "none"
    THEN /\ normalized' = Append(normalized, r.value)
         /\ UNCHANGED <<pc, error>>
    ELSE /\ pc' = "error"
         /\ error' = [exc |-> r.exc, msg |-> r.msg]
         /\ UNCHANGED normalized

Normalize ==
    /\ pc = "map"
    /\ Len(normalized) < Len(routes)
    /\ \E debug \in BOOLEAN :
         Normalized(_get_tuple_from_route(routes[Len(normalized) + 1], debug))
    /\ UNCHANGED <<routes, todo, documentation, file, writes, scanned,
                   validated, classes>>
    /\ UNCHANGED textVars

Sort ==
    /\ pc = "map"
    /\ Len(normalized) = Len(routes)
    /\ todo' = sorted_by_pattern(normalized)
    /\ pc' = "loop"
    /\ UNCHANGED <<routes, normalized, documentation, error, file, writes,
                   scanned, validated, classes>>
    /\ UNCHANGED textVars

\* The enumeration orders of a namespace of n members.
Orders(n) == {o \in [1..n -> 1..n] : \A i, j \in 1..n : o[i] = o[j] => i = j}

\* Mutant: an exception raised while documenting a route is swallowed and
\* the route skipped.
Documented_swallowing(rh, r) ==
    /\ scanned' = scanned \cup {rh}
    /\ validated' = validated \cup r.validated
    /\ documentation' = IF r.exc = "none" THEN Append(documentation, r.value)
                                          ELSE documentation
    /\ todo' = Tail(todo)
    /\ UNCHANGED <<pc, error>>

\* Mutant: a route whose handler has no documented method is left out.
Documented_unless_empty(rh, r) ==
    /\ scanned' = scanned \cup {rh}
    /\ validated' = validated \cup r.validated
    /\ IF r.exc = "none"
       THEN /\ documentation' = IF r.value.methods = <<>>
                                 THEN documentation
                                 ELSE Append(documentation, r.value)
            /\ todo' = Tail(todo)
            /\ UNCHANGED <<pc, error>>
       ELSE /\ pc' = "error"
            /\ error' = [exc |-> r.exc, msg |-> r.msg]
            /\ UNCHANGED <<documentation, todo>>

\* The effect of one call of _get_route_doc(url, rh) returning r.
Documented(rh, r) ==
    /\ scanned' = scanned \cup {rh}
    /\ validated' = validated \cup r.validated
    /\ IF r.exc = "none"
       THEN /\ documentation' = Append(documentation, r.value)
            /\ todo' = Tail(todo)
            /\ UNCHANGED <<pc, error>>
       ELSE /\ pc' = "error"
            /\ error' = [exc |-> r.exc, msg |-> r.msg]
            /\ UNCHANGED <<documentation, todo>>

\* One iteration of the for loop on the route (url, rh).
DocRouteOf(url, rh) ==
    IF issubclass_APIHandler(classes[rh])
    THEN \E order \in Orders(Len(classes[rh].own)) :
            Documented(rh, _get_route_doc(url, rh, classes[rh], order))
    ELSE /\ todo' = Tail(todo)
         /\ UNCHANGED <<documentation, pc, error, scanned, validated>>

DocRoute ==
    /\ pc = "loop"
    /\ todo # <<>>
    /\ DocRouteOf(Head(todo)[1], Head(todo)[2])
    /\ UNCHANGED <<routes, normalized, file, writes, classes>>
    /\ UNCHANGED textVars

Write ==
    /\ pc = "loop"
    /\ todo = <<>>
    /\ file' = <<_write_docs_to_file(documentation)>>
    /\ writes' = writes + 1
    /\ pc' = "done"
    /\ UNCHANGED <<routes, normalized, todo, documentation, error, scanned,
                   validated, classes>>
    /\ UNCHANGED textVars

Next == Normalize \/ Sort \/ DocRoute \/ Write

(***************************************************************************)
(* Inputs.                                                                 *)
(***************************************************************************)
Patterns == {<<"/", "a">>, <<"/", "a", "$">>, <<"/", "b">>}

Notes == "Fetch an item."

Decorated(name, output_schema, input_example, output_example, docstring) ==
    [name |-> name, is_method |-> TRUE, has_input_schema |-> TRUE,
     input_schema |-> "integer", output_schema |-> output_schema,
     input_example |-> input_example, output_example |-> output_example,
     doc |-> docstring]

\* A method schema.validate never decorated, and a class attribute that is
\* not a method (with or without an input_schema attribute of its own).
Undecorated(name, is_method, has_input_schema) ==
    [name |-> name, is_method |-> is_method,
     has_input_schema |-> has_input_schema,
     input_schema |-> IF has_input_schema THEN "integer" ELSE None,
     output_schema |-> None, input_example |-> None, output_example |-> None,
     doc |-> Notes]

\* The classes of the application api_doc_gen runs on under Spec.
ApplicationClasses ==
    [n \in {"Plain", "Empty", "Good", "Bad"} |->
        CASE n = "Plain" ->
               [api |-> FALSE,
                own |-> <<Decorated("get", None, "x", None, Notes)>>,
                inherited |-> <<>>]
          [] n = "Empty" ->
               [api |-> TRUE,
                own |-> <<Undecorated("get", TRUE, FALSE)>>,
                inherited |-> <<Decorated("put", None, None, None, Notes)>>]
          [] n = "Good" ->
               [api |-> TRUE,
                own |-> <<Decorated("get", "integer", "7", "7", Notes)>>,
                inherited |-> <<>>]
          [] n = "Bad" ->
               [api |-> TRUE,
                own |-> <<Decorated("post", "integer", None, "x", Notes)>>,
                inherited |-> <<>>]]

TupleRoute(items) ==
    [type |-> "tuple", items |-> items, regex_pattern |-> <<>>,
     handler_class |-> ""]

URLSpecRoute(pattern, rh) ==
    [type |-> "URLSpec", items |-> <<>>, regex_pattern |-> pattern,
     handler_class |-> rh]

OtherRoute(type, items) ==
    [type |-> type, items |-> items, regex_pattern |-> <<>>,
     handler_class |-> ""]

Descriptors ==
    {TupleRoute(<<p, h>>) : p \in Patterns, h \in DOMAIN ApplicationClasses}
    \cup {URLSpecRoute(p, "Good") : p \in Patterns}
    \cup {TupleRoute(<<<<"/", "b">>, "Bad", "kwargs">>)}
    \cup {TupleRoute(<<<<"/", "a">>>>),
          OtherRoute("list", <<<<"/", "a">>, "Good">>),
          OtherRoute("dict", <<>>)}

Start ==
    /\ pc = "map"
    /\ normalized = <<>>
    /\ todo = <<>>
    /\ documentation = <<>>
    /\ error = NoError
    /\ file = <<>>
    /\ writes = 0
    /\ scanned = {}
    /\ validated = {}
    /\ TextIdle

Init ==
    /\ classes = ApplicationClasses
    /\ routes \in UNION {[1..n -> Descriptors] : n \in 0..MaxRoutes}
    /\ Start

Spec == Init /\ [][Next]_vars

\* One route to one handler class, the class drawn from every combination of
\* members.
Members ==
    {Decorated(n, os, ie, oe, d) :
        n \in {"get", "post"}, os \in {None, "integer"},
        ie \in {None, "7", "x"}, oe \in {None, "7", "x"},
        d \in {None, Notes}}
    \cup {Undecorated(n, m, h) :
            n \in {"get", "post", "prepare"}, m \in BOOLEAN, h \in BOOLEAN}

\* validate() is only specified on a schema: an example comes with one.
WellFormedMember(v) == v.output_example # None => v.output_schema # None

OwnNamespaces ==
    {s \in UNION {[1..k -> {v \in Members : WellFormedMember(v)}] :
                    k \in 0..MaxMembers} :
        \A i, j \in DOMAIN s : s[i].name = s[j].name => i = j}

HandlerClasses ==
    [api : BOOLEAN,
     own : OwnNamespaces,
     inherited : {<<>>, <<Decorated("put", None, None, None, Notes)>>}]

InitHandler ==
    /\ classes \in {[n \in {"Handler"} |-> c] : c \in HandlerClasses}
    /\ routes = <<TupleRoute(<<<<"/", "a">>, "Handler">>)>>
    /\ Start

SpecHandler == InitHandler /\ [][Next]_vars

(***************************************************************************)
(* Properties of the pipeline.  The helpers below restate, from the        *)
(* inputs alone, what the claims talk about.                               *)
(***************************************************************************)
IsSequence(r) == r.type \in {"tuple", "list"}

WellShaped(r) == r.type = "URLSpec" \/ (r.type = "tuple" /\ Len(r.items) >= 2)

RoutePattern(r) == IF r.type = "URLSpec" THEN r.regex_pattern ELSE r.items[1]

RouteClass(r) == IF r.type = "URLSpec" THEN r.handler_class ELSE r.items[2]

Documentable(r) == classes[RouteClass(r)].api

\* a sorts strictly before b in lexicographic (code point) order.
LexLess(a, b) ==
    \E k \in 1..(Len(b)) :
        /\ k <= Len(a) + 1
        /\ \A j \in 1..(k - 1) : a[j] = b[j]
        /\ k = Len(a) + 1 \/ Ord(a[k]) < Ord(b[k])

\* The members of cls the scanner is claimed to yield: declared on the class
\* itself, named after an HTTP verb, methods, carrying an input schema.
DocumentedMembers(cls) ==
    {i \in DOMAIN cls.own :
        /\ cls.own[i].name \in HTTP_METHODS
        /\ cls.own[i].is_method
        /\ cls.own[i].has_input_schema}

\* The example of slot is present and the validator rejects it.
Rejected(v, slot) ==
    /\ ExampleAttr(v, slot) # None
    /\ validate(ExampleAttr(v, slot), SchemaAttr(v, slot)).exc # "none"

HasRejectedExample(r) ==
    /\ WellShaped(r)
    /\ Documentable(r)
    /\ \E i \in DocumentedMembers(classes[RouteClass(r)]) :
         \E slot \in {"input", "output"} :
            Rejected(classes[RouteClass(r)].own[i], slot)

SectionKeys(d) == [i \in DOMAIN d |-> <<d[i].url, d[i].rh>>]

\* The sections' (pattern, handler) pairs api_doc_gen yields for the
\* normalised routes n.
KeysFor(n) ==
    LET IsApi(t) == classes[t[2]].api
    IN  SelectSeq(sorted_by_pattern(n), IsApi)

Reorderings(n) == {[i \in DOMAIN n |-> n[o[i]]] : o \in Orders(Len(n))}

\* C1 as claimed: the sections are in ascending order of pattern and their
\* order is the same for every permutation of the route list.
C1_SectionOrderIgnoresInputOrder ==
    pc = "done" =>
        /\ \A i, j \in DOMAIN documentation :
             i < j => ~LexLess(documentation[j].url, documentation[i].url)
        /\ \A q \in Reorderings(normalized) :
             KeysFor(q) = SectionKeys(documentation)

\* C1 amended: the sections are those of the documentable routes, in
\* ascending lexicographic order of pattern, whatever the order the routes
\* were supplied in; routes with equal patterns keep their supplied order (so
\* the order depends on the patterns alone when they are pairwise distinct).
C1_SectionsSortedByPatternStable ==
    pc = "done" =>
        /\ \A i, j \in DOMAIN documentation :
             i < j => ~LexLess(documentation[j].url, documentation[i].url)
        /\ \E f \in [DOMAIN documentation -> DOMAIN routes] :
             /\ \A i \in DOMAIN routes :
                  Documentable(routes[i]) <=>
                      \E k \in DOMAIN documentation : f[k] = i
             /\ \A k \in DOMAIN documentation :
                  /\ documentation[k].url = RoutePattern(routes[f[k]])
                  /\ documentation[k].rh = RouteClass(routes[f[k]])
             /\ \A k, l \in DOMAIN documentation :
                  k < l =>
                     \/ LexLess(documentation[k].url, documentation[l].url)
                     \/ /\ documentation[k].url = documentation[l].url
                        /\ f[k] < f[l]
        /\ (\A i, j \in DOMAIN normalized :
               normalized[i][1] = normalized[j][1] => i = j)
           => \A q \in Reorderings(normalized) :
                 KeysFor(q) = SectionKeys(documentation)

C1_Witness ==
    /\ pc = "done"
    /\ Len(documentation) = 3
    /\ LexLess(RoutePattern(routes[2]), RoutePattern(routes[1]))
    /\ RoutePattern(routes[2]) = RoutePattern(routes[3])
    /\ RouteClass(routes[2]) # RouteClass(routes[3])

\* C3: the file is written at most once, and only when every route has been
\* normalised and every present example of every documented method of a
\* documentable route has been validated and accepted; a run with a route
\* of unrecognised shape or a rejected example, wherever it sits in the
\* list, never writes, and a run that ended in an error has written nothing.
C3_SingleWriteAfterAllChecks ==
    /\ writes <= 1
    /\ (writes = 0) <=> (file = <<>>)
    /\ pc = "error" => writes = 0
    /\ (\E i \in DOMAIN routes :
           ~WellShaped(routes[i]) \/ HasRejectedExample(routes[i]))
       => writes = 0 /\ pc # "done"
    /\ writes = 1 =>
         /\ pc = "done"
         /\ Len(normalized) = Len(routes)
         /\ \A i \in DOMAIN routes :
              /\ WellShaped(routes[i])
              /\ Documentable(routes[i]) =>
                   \A m \in DocumentedMembers(classes[RouteClass(routes[i])]) :
                      \A slot \in {"input", "output"} :
                         LET v == classes[RouteClass(routes[i])].own[m]
                         IN  ExampleAttr(v, slot) # None =>
                               /\ <<RouteClass(routes[i]), v.name, slot>>
                                     \in validated
                               /\ ~Rejected(v, slot)
         /\ file[1].sections = documentation

C3_Witness ==
    /\ pc = "error"
    /\ error.exc = "ValidationError"
    /\ Len(routes) = 3
    /\ Len(documentation) = 2
    /\ writes = 0

\* C4 as claimed: a route whose handler has no documented method, a
\* documentable one included, has no section in the document.
C4_NoSectionWithoutDocumentedMethod ==
    pc = "done" =>
        \A k \in DOMAIN documentation :
            DocumentedMembers(classes[documentation[k].rh]) # {}

\* C4 amended: a route whose handler is not an APIHandler subclass has no
\* section; a route whose handler is an APIHandler subclass with no documented
\* method has a section made of the heading and the Content-Type line with an
\* empty body.
C4_EmptySectionForUndocumentedAPIHandler ==
    pc = "done" =>
        \A i \in DOMAIN routes :
            LET here == {k \in DOMAIN documentation :
                            /\ documentation[k].url = RoutePattern(routes[i])
                            /\ documentation[k].rh = RouteClass(routes[i])}
                same == {j \in DOMAIN routes :
                            /\ RoutePattern(routes[j]) = RoutePattern(routes[i])
                            /\ RouteClass(routes[j]) = RouteClass(routes[i])}
            IN  IF Documentable(routes[i])
                THEN /\ Cardinality(here) = Cardinality(same)
                     /\ DocumentedMembers(classes[RouteClass(routes[i])]) = {}
                        => \A k \in here :
                              /\ documentation[k].methods = <<>>
                              /\ documentation[k].content_type =
                                    "Content-Type: application/json"
                              /\ documentation[k].heading =
                                    <<"#", " ">> \o _escape_markdown_literals(
                                                       RoutePattern(routes[i]))
                ELSE here = {}

C4_Witness ==
    /\ pc = "done"
    /\ \E k \in DOMAIN documentation :
         /\ documentation[k].rh = "Empty"
         /\ documentation[k].methods = <<>>
    /\ \E i \in DOMAIN routes : ~Documentable(routes[i])

\* C5: only routes whose handler is a subclass of APIHandler get a section;
\* a route whose handler is not one raises no error, its methods are never
\* scanned and its examples never validated, and the sections are those the
\* same route list without such routes yields.
C5_OnlyAPIHandlersDocumented ==
    /\ \A k \in DOMAIN documentation : classes[documentation[k].rh].api
    /\ \A rh \in scanned : classes[rh].api
    /\ \A t \in validated : classes[t[1]].api
    /\ error.exc \in {"ValidationError", "AttributeError"}
          => classes[Head(todo)[2]].api
    /\ pc = "done" =>
         LET IsApi(t) == classes[t[2]].api
         IN  /\ SectionKeys(documentation) =
                   sorted_by_pattern(SelectSeq(normalized, IsApi))
             /\ \A k \in DOMAIN documentation :
                  \E o \in Orders(Len(classes[documentation[k].rh].own)) :
                     documentation[k] =
                        _get_route_doc(documentation[k].url,
                                       documentation[k].rh,
                                       classes[documentation[k].rh], o).value

C5_Witness ==
    /\ pc = "done"
    /\ Len(routes) = 3
    /\ Len(documentation) = 2
    /\ RouteClass(routes[2]) = "Plain"
    /\ RoutePattern(routes[2]) = <<"/", "a", "$">>
    /\ RoutePattern(routes[1]) = <<"/", "b">>
    /\ RoutePattern(routes[3]) = <<"/", "a">>

\* The run ended in _get_tuple_from_route.
MapError == pc = "error" /\ error.exc \notin {"ValidationError", "AttributeError"}

\* C8 as claimed: every sequence of length >= 2, whatever its kind, is
\* normalised to its first two elements, every route-spec object to its
\* pattern and handler, and every other descriptor raises a TypeError naming
\* its type.
C8_NormalizerTakesAnySequence ==
    /\ \A i \in DOMAIN normalized :
         normalized[i] = <<RoutePattern(routes[i]), RouteClass(routes[i])>>
    /\ MapError =>
         LET r == routes[Len(normalized) + 1]
         IN  /\ ~(IsSequence(r) /\ Len(r.items) >= 2)
             /\ r.type # "URLSpec"
             /\ error = [exc |-> "TypeError",
                         msg |-> <<"Unknown route type", r.type>>]

\* C8 amended: a tuple of length >= 2 is normalised to its first two
\* elements and a URLSpec to (route.regex.pattern, route.handler_class); a
\* descriptor that is neither a tuple nor a URLSpec (a list included) raises a
\* TypeError naming its type; a tuple shorter than 2 fails the assert
\* (AssertionError, ValueError under python -O).  Nothing else changes.
C8_NormalizerTakesTupleOrURLSpec ==
    /\ \A i \in DOMAIN normalized :
         /\ WellShaped(routes[i])
         /\ normalized[i] = <<RoutePattern(routes[i]), RouteClass(routes[i])>>
    /\ pc = "map" => /\ documentation = <<>> /\ file = <<>> /\ writes = 0
                     /\ scanned = {} /\ validated = {}
    /\ MapError =>
         LET r == routes[Len(normalized) + 1]
         IN  /\ ~WellShaped(r)
             /\ r.type \notin {"tuple", "URLSpec"}
                   => error = [exc |-> "TypeError",
                               msg |-> <<"Unknown route type", r.type>>]
             /\ r.type = "tuple"
                   => error.exc \in {"AssertionError", "ValueError"}
             /\ documentation = <<>> /\ file = <<>> /\ writes = 0
    /\ pc \in {"loop", "done"} \/ error.exc \in {"ValidationError", "AttributeError"}
         => Len(normalized) = Len(routes)

C8_Witness ==
    /\ MapError
    /\ error.exc = "TypeError"
    /\ error.msg[2] = "list"
    /\ Len(normalized) = 2
    /\ routes[1].type = "URLSpec"
    /\ Len(routes[2].items) = 3

(***************************************************************************)
(* Properties of the scanner and of the per-method documentation (checked  *)
(* under SpecHandler).                                                     *)
(***************************************************************************)
MemberNamed(cls, name) ==
    cls.own[CHOOSE i \in DOMAIN cls.own : cls.own[i].name = name]

RenderedExample(block, slot) ==
    IF slot = "input" THEN block.input_example ELSE block.output_example

\* C2: whenever the validator is given a present example it rejects, the run
\* aborts with a ValidationError whose message holds the slot kind, the
\* handler's name, the method's name and the validator's diagnostic; an
\* example is rendered only if it is present and was accepted, a present
\* example of a documented method is never left out of its block, and a run
\* with a rejected example never completes.
C2_RejectedExampleAborts ==
    /\ \A t \in validated :
         LET v == MemberNamed(classes[t[1]], t[2])
         IN  Rejected(v, t[3]) =>
               /\ pc = "error"
               /\ error = [exc |-> "ValidationError",
                           msg |-> <<t[3], t[1], t[2]>> \o
                                   validate(ExampleAttr(v, t[3]),
                                            SchemaAttr(v, t[3])).msg]
    /\ error.exc = "ValidationError" =>
         /\ pc = "error"
         /\ Len(error.msg) = 4
         /\ <<error.msg[2], error.msg[3], error.msg[1]>> \in validated
         /\ Rejected(MemberNamed(classes[error.msg[2]], error.msg[3]),
                     error.msg[1])
    /\ \A k \in DOMAIN documentation :
         \A b \in DOMAIN documentation[k].methods :
            \A slot \in {"input", "output"} :
               LET block == documentation[k].methods[b]
                   rh == documentation[k].rh
                   v == MemberNamed(classes[rh], block.name)
               IN  IF ExampleAttr(v, slot) = None
                   THEN RenderedExample(block, slot) = <<>>
                   ELSE /\ ~Rejected(v, slot)
                        /\ <<rh, v.name, slot>> \in validated
                        /\ RenderedExample(block, slot) =
                              <<"**" \o capitalize(slot) \o " Example**",
                                json_dumps(ExampleAttr(v, slot))>>
    /\ (\E i \in DOMAIN routes : HasRejectedExample(routes[i]))
          => pc # "done" /\ writes = 0

C2_Witness ==
    /\ pc = "error"
    /\ error.exc = "ValidationError"
    /\ error.msg[1] = "output"
    /\ error.msg[3] = "post"
    /\ Len(classes[error.msg[2]].own) = 2
    /\ MemberNamed(classes[error.msg[2]], "post").input_example = "7"

AlphabeticalRank(name) ==
    CASE name = "delete" -> 1
      [] name = "get" -> 2
      [] name = "head" -> 3
      [] name = "options" -> 4
      [] name = "patch" -> 5
      [] name = "post" -> 6
      [] name = "put" -> 7

\* C7: within a route's section the method blocks are in alphabetical order
\* of verb name, whatever the order the class declares its methods in.
C7_MethodBlocksAlphabetical ==
    \A k \in DOMAIN documentation :
        \A a, b \in DOMAIN documentation[k].methods :
            a < b => AlphabeticalRank(documentation[k].methods[a].name)
                       < AlphabeticalRank(documentation[k].methods[b].name)

(***************************************************************************)
(* Properties of the text utilities (checked under SpecText).              *)
(***************************************************************************)
LeadingSpaces(s) ==
    CHOOSE k \in 0..Len(s) :
        /\ \A j \in 1..k : s[j] = " "
        /\ k = Len(s) \/ s[k + 1] # " "

NonEmptyLines(d) == {i \in DOMAIN d : d[i] # <<>>}

NonBlank(s) == \E j \in DOMAIN s : s[j] # " "

\* The minimum count of leading spaces over the non-empty lines of d (0 when
\* d has no non-empty line).
CommonIndent(d) ==
    IF NonEmptyLines(d) = {}
    THEN 0
    ELSE CHOOSE n \in 0..MaxLineLen + 1 :
            /\ \A i \in NonEmptyLines(d) : LeadingSpaces(d[i]) >= n
            /\ \E i \in NonEmptyLines(d) : LeadingSpaces(d[i]) = n

\* c is d with exactly n leading spaces removed from every non-empty line and
\* every empty line left empty.
Dedented(d, c, n) ==
    /\ Len(c) = Len(d)
    /\ \A i \in DOMAIN d :
         IF d[i] = <<>> THEN c[i] = <<>> ELSE d[i] = Spaces(n) \o c[i]

\* C9: cleandoc returns a result for every block (also one whose lines are
\* all empty); the result is the block with exactly n leading spaces removed
\* from each non-empty line, n the minimum indentation of the non-empty
\* lines; empty lines stay empty; a block of minimum indentation zero is
\* returned unchanged (so no non-space character is ever removed).
C9_CleandocDedentsEveryBlock ==
    tpc \in {"cleaned", "failed", "indented"} =>
        /\ cleaned.exc = "none"
        /\ Dedented(doc, cleaned.value, CommonIndent(doc))
        /\ CommonIndent(doc) = 0 => cleaned.value = doc

\* C9, the part the code satisfies: cleandoc fails exactly on the blocks
\* with no non-empty line and dedents every other block as claimed.
C9_CleandocDedentsOrAllEmpty ==
    tpc \in {"cleaned", "failed", "indented"} =>
        IF NonEmptyLines(doc) = {}
        THEN cleaned.exc = "ValueError"
        ELSE /\ cleaned.exc = "none"
             /\ Dedented(doc, cleaned.value, CommonIndent(doc))
             /\ CommonIndent(doc) = 0 => cleaned.value = doc

\* C10 as claimed: dedent then reindent by the stripped amount restores
\* every non-blank line of a multi-line block, the first line included.
C10_RoundTripEveryLine ==
    (tpc = "indented" /\ Len(doc) >= 2 /\ indent = CommonIndent(doc)) =>
        /\ Len(restored) = Len(doc)
        /\ \A i \in DOMAIN doc : NonBlank(doc[i]) => restored[i] = doc[i]

\* C10 amended: cleandoc fails on a block with no non-empty line; on every
\* other block, cleandoc then add_indent by the stripped amount n restores
\* every non-empty line after the first, turns every empty line after the
\* first into n spaces, and leaves the first line dedented (the original
\* first line without its n leading spaces).
C10_RoundTripExceptFirstLine ==
    /\ tpc = "failed" => NonEmptyLines(doc) = {}
    /\ (tpc = "indented" /\ indent = CommonIndent(doc)) =>
         /\ Len(restored) = Len(doc)
         /\ IF doc[1] = <<>> THEN restored[1] = <<>>
                             ELSE doc[1] = Spaces(indent) \o restored[1]
         /\ \A i \in 2..Len(doc) :
              IF doc[i] = <<>> THEN restored[i] = Spaces(indent)
                              ELSE restored[i] = doc[i]

C10_Witness ==
    /\ tpc = "indented"
    /\ Len(doc) >= 2
    /\ indent = CommonIndent(doc)
    /\ indent > 0
    /\ NonBlank(doc[1])
    /\ \E i \in 2..Len(doc) : doc[i] = <<>>
    /\ \E i \in 2..Len(doc) : NonBlank(doc[i])

====
